---- MODULE Spec2Model ----
(***************************************************************************)
(* A model of get_resilabels.py: the conversion of a gesamt alignment      *)
(* report into one residue label file per structure.                       *)
(*                                                                         *)
(* Text is modelled as TLA+ strings, lists as sequences.  An optional      *)
(* value (Python's None or a value) is the empty sequence or a one-element *)
(* sequence.  List and string indices keep the source's 0-based values.    *)
(***************************************************************************)
EXTENDS Integers, Sequences, FiniteSets, TLC

\* ------------------------------------------------------------------------
\* Bounds of the checked inputs
\* ------------------------------------------------------------------------
MaxRows == 2
MaxCols == 2

\* ------------------------------------------------------------------------
\* Python's string and list primitives, as the program uses them
\* ------------------------------------------------------------------------
None == << >>

Some(v) == <<v>>

Min2(a, b) == IF a < b THEN a ELSE b

Max2(a, b) == IF a > b THEN a ELSE b

Char(s, i) == SubSeq(s, i, i)

\* s[lo:hi] for optional bounds lo and hi, on a string or a list.
PySlice(s, lo, hi) ==
  LET n == Len(s)
      Norm(b, dflt) == IF b = None THEN dflt
                       ELSE IF b[1] < 0 THEN Max2(b[1] + n, 0)
                       ELSE Min2(b[1], n)
      a == Norm(lo, 0)
      z == Norm(hi, n)
  IN  IF a >= z THEN SubSeq(s, 1, 0) ELSE SubSeq(s, a + 1, z)

\* s.strip(): leading and trailing blanks removed.
PyStrip(s) ==
  LET n == Len(s)
  IN  IF \A i \in 1..n : Char(s, i) = " " THEN ""
      ELSE LET lo == CHOOSE i \in 1..n :
                       Char(s, i) # " " /\ \A j \in 1..(i - 1) : Char(s, j) = " "
               cut == CHOOSE k \in 0..(n - 1) :
                        Char(s, n - k) # " " /\ \A j \in (n - k + 1)..n : Char(s, j) = " "
           IN  SubSeq(s, lo, n - cut)

MatchAt(s, sub, j) ==
  /\ j + Len(sub) - 1 <= Len(s)
  /\ \A k \in 1..Len(sub) : Char(s, j + k - 1) = Char(sub, k)

\* sub in s
PyIn(sub, s) == \E j \in 1..(Len(s) - Len(sub) + 1) : MatchAt(s, sub, j)

\* The places where sub occurs in s.
Occurrences(s, sub) == {j \in 1..(Len(s) - Len(sub) + 1) : MatchAt(s, sub, j)}

\* The first of the places at or after i, or 0.
NextOf(places, i) ==
  LET later == {j \in places : j >= i}
  IN  IF later = {} THEN 0 ELSE CHOOSE j \in later : \A k \in later : j <= k

\* The 1-based place of the first occurrence of sub in s at or after i, or 0.
FindFrom(s, sub, i) == NextOf(Occurrences(s, sub), i)

RECURSIVE SplitFrom(_, _, _, _)
SplitFrom(s, sep, places, i) ==
  LET j == NextOf(places, i)
  IN  IF j = 0 THEN <<SubSeq(s, i, Len(s))>>
      ELSE <<SubSeq(s, i, j - 1)>> \o SplitFrom(s, sep, places, j + Len(sep))

\* s.split(sep): the occurrences of sep are taken from the left, without overlap.
PySplit(s, sep) == SplitFrom(s, sep, Occurrences(s, sep), 1)

RECURSIVE JoinFrom(_, _, _)
JoinFrom(sep, xs, i) ==
  IF i > Len(xs) THEN ""
  ELSE IF i = Len(xs) THEN xs[i]
  ELSE xs[i] \o sep \o JoinFrom(sep, xs, i + 1)

\* sep.join(xs)
PyJoin(sep, xs) == JoinFrom(sep, xs, 1)

\* s.replace(old, new)
PyReplace(s, old, new) == IF PyIn(old, s) THEN JoinFrom(new, PySplit(s, old), 1) ELSE s

Digits == <<"0", "1", "2", "3", "4", "5", "6", "7", "8", "9">>

IsDigit(c) == \E d \in 1..10 : Digits[d] = c

DigitVal(c) == (CHOOSE d \in 1..10 : Digits[d] = c) - 1

RECURSIVE DigitsVal(_, _)
DigitsVal(s, n) ==
  IF n = 0 THEN 0
  ELSE IF Char(s, n) = "_" THEN DigitsVal(s, n - 1)
  ELSE 10 * DigitsVal(s, n - 1) + DigitVal(Char(s, n))

\* int(s): None stands for the ValueError of a text that is no integer.
PyInt(s) ==
  LET t == PyStrip(s)
      signed == Len(t) > 0 /\ Char(t, 1) \in {"+", "-"}
      body == IF signed THEN SubSeq(t, 2, Len(t)) ELSE t
      n == Len(body)
      wellformed ==
        /\ n > 0
        /\ \A i \in 1..n : IsDigit(Char(body, i)) \/ Char(body, i) = "_"
        /\ Char(body, 1) # "_"
        /\ Char(body, n) # "_"
        /\ \A i \in 1..(n - 1) : ~(Char(body, i) = "_" /\ Char(body, i + 1) = "_")
  IN  IF ~wellformed THEN None
      ELSE IF signed /\ Char(t, 1) = "-" THEN Some(0 - DigitsVal(body, n))
      ELSE Some(DigitsVal(body, n))

RECURSIVE NatStr(_)
NatStr(n) == IF n < 10 THEN Digits[n + 1] ELSE NatStr(n \div 10) \o Digits[(n % 10) + 1]

\* str(n)
PyStr(n) == IF n < 0 THEN "-" \o NatStr(0 - n) ELSE NatStr(n)

\* ------------------------------------------------------------------------
\* The program's state
\* ------------------------------------------------------------------------
VARIABLES
  row_mode,      \* which parser's row code runs: "two" or "multi"
  row_residues,  \* the aligned residues gesamt printed in the row
  row_line,      \* the row as one element of gesamt_lines
  row_fields,    \* the row's residue descriptors
  row_tokens,    \* the row's residue tokens
  row_pc         \* the row code's position

rowvars == <<row_mode, row_residues, row_line, row_fields, row_tokens, row_pc>>

VARIABLES
  input_gesamt,         \* the lines of the report file, as readlines() gives them
  input_proteins,       \* --proteins: None or the list of names
  output_path,          \* the output directory: file name -> content
  gesamt_lines,         \* main's gesamt_lines
  calls,                \* the parsers main has called in this run
  alignment_start_idx,  \* the parser's alignment_start_idx
  alignment_end_idx,    \* the parser's alignment_end_idx
  alignment_lines,      \* main's alignment_lines as the parser returned it: token rows
  records,              \* main's alignment_lines once rebound: one dict per row
  proteins,             \* main's proteins
  written,              \* the proteins whose file the write loop has completed
  pc,                   \* main's position
  error,                \* the uncaught exception that ended the run, and where
  run,                  \* 1 in the first run of the program, 2 in the second
  before,               \* the output directory when this run started
  first_output          \* the output directory the first run left

mainvars == <<input_gesamt, input_proteins, output_path, gesamt_lines, calls,
              alignment_start_idx, alignment_end_idx, alignment_lines, records,
              proteins, written, pc, error, run, before, first_output>>

vars == <<rowvars, mainvars>>

\* ------------------------------------------------------------------------
\* parse_two_queries: one row of the alignment table
\* ------------------------------------------------------------------------
\* [line.split("|")[idx].strip() for idx in [1, 3]]; None is the IndexError
\* of a line with fewer than four "|"-separated fields.
TwoFields(line) ==
  LET parts == PySplit(line, "|")
  IN  IF Len(parts) < 4 THEN None
      ELSE Some(<<PyStrip(parts[2]), PyStrip(parts[4])>>)

\* NormalizeTwo without the conversion of the number field to an integer.
NormalizeTwoPadded(token) ==
  IF Len(token) > 0
  THEN LET n == PyInt(PySlice(token, Some(-4), None))
       IN  IF n = None THEN None
           ELSE Some(PySlice(token, Some(-9), Some(-4)) \o ":" \o PySlice(token, Some(-4), None))
  ELSE Some("")

\* token[-9:-4] + ":" + str(int(token[-4:])).strip() if len(token) > 0 else ""
NormalizeTwo(token) ==
  IF Len(token) > 0
  THEN LET n == PyInt(PySlice(token, Some(-4), None))
       IN  IF n = None THEN None
           ELSE Some(PySlice(token, Some(-9), Some(-4)) \o ":" \o PyStrip(PyStr(n[1])))
  ELSE Some("")

\* ------------------------------------------------------------------------
\* parse_more_than_two_queries: one row of the alignment table
\* ------------------------------------------------------------------------
\* The "|*|" delimiters replaced, the line split on "| |", the fields
\* stripped and the displacement column dropped.
MultiFields(line) ==
  LET parts == PySplit(PyReplace(line, "|*|", "| |"), "| |")
      stripped == [i \in 1..Len(parts) |-> PyStrip(parts[i])]
  IN  PySlice(stripped, Some(1), None)

\* StripFlag keeping everything after the first "|": token.split("|", 1)[1].
StripFlagRest(token) ==
  IF PyIn("|", token) THEN SubSeq(token, FindFrom(token, "|", 1) + 1, Len(token)) ELSE token

\* token.split("|")[1] if "|" in token else token
StripFlag(token) == IF PyIn("|", token) THEN PySplit(token, "|")[2] ELSE token

\* token[:5] + ":" + str(int(token[5:])) if len(token) > 0 else token
NormalizeMulti(token) ==
  IF Len(token) > 0
  THEN LET n == PyInt(PySlice(token, Some(5), None))
       IN  IF n = None THEN None
           ELSE Some(PySlice(token, None, Some(5)) \o ":" \o PyStr(n[1]))
  ELSE Some(token)

\* A list of optional tokens as the list of tokens, or None if one failed.
AllOrNone(opts) ==
  IF \E i \in 1..Len(opts) : opts[i] = None THEN None
  ELSE Some([i \in 1..Len(opts) |-> opts[i][1]])

\* ------------------------------------------------------------------------
\* The rows gesamt prints, in the fixed-width form of its report
\* ------------------------------------------------------------------------
Gap == [gap |-> TRUE, pre |-> "", chain |-> "", resname |-> "", resnum |-> 0, post |-> ""]

Resnums == {0, 5, 75, 1075, -12}

TwoResidues ==
  {Gap} \cup [gap : {FALSE}, pre : {"H- ", "   ", ""}, chain : {"A"},
              resname : {"LEU", "  U"}, resnum : Resnums, post : {"", "x"}]

MultiResidues ==
  {Gap} \cup [gap : {FALSE}, pre : {"", "H|"}, chain : {"B"},
              resname : {"CYS"}, resnum : {5, 341, -12, 12345}, post : {"", "|B"}]

RECURSIVE RJust(_, _)
RJust(s, w) == IF Len(s) >= w THEN s ELSE RJust(" " \o s, w)

\* One residue as gesamt prints it: the marker, chain:resname, then the
\* residue number right-justified in four characters.
Descriptor(r) ==
  IF r.gap THEN "            "
  ELSE r.pre \o r.chain \o ":" \o r.resname \o RJust(PyStr(r.resnum), 4) \o r.post

\* "|H- A:LEU  75 | <**0.82**> |H- A:LEU  65 |"
FormatTwo(rs) ==
  "|" \o Descriptor(rs[1]) \o " | <**0.82**> |" \o Descriptor(rs[2]) \o " |"

RECURSIVE FormatCols(_, _, _)
FormatCols(rs, seps, i) ==
  IF i > Len(rs) THEN ""
  ELSE " " \o seps[((i - 1) % Len(seps)) + 1] \o "  " \o Descriptor(rs[i])
         \o FormatCols(rs, seps, i + 1)

\* "6.034 |*|  A:CYS 341 | |  A:MET 456"
FormatMulti(rs, seps) == "6.034" \o FormatCols(rs, seps, 1)

SeqsUpTo(S, n) == UNION {[1..k -> S] : k \in 1..n}

\* The token a printed residue stands for.
Canon(r) ==
  IF r.gap THEN "" ELSE r.chain \o ":" \o r.resname \o ":" \o PyStr(r.resnum)

\* The program not started: the state of main's variables while the row code
\* alone is exercised.
MainIdle ==
  /\ input_gesamt = << >>
  /\ input_proteins = None
  /\ output_path = << >>
  /\ gesamt_lines = << >>
  /\ calls = << >>
  /\ alignment_start_idx = None
  /\ alignment_end_idx = None
  /\ alignment_lines = << >>
  /\ records = << >>
  /\ proteins = << >>
  /\ written = << >>
  /\ pc = "idle"
  /\ error = None
  /\ run = 1
  /\ before = << >>
  /\ first_output = None

\* ------------------------------------------------------------------------
\* The row code, statement by statement
\* ------------------------------------------------------------------------
InitRow ==
  /\ MainIdle
  /\ row_mode \in {"two", "multi"}
  /\ row_residues \in IF row_mode = "two" THEN [1..2 -> TwoResidues]
                      ELSE SeqsUpTo(MultiResidues, MaxCols)
  /\ \E seps \in {<<"| |">>, <<"|*|", "| |">>} :
       row_line = PyStrip(IF row_mode = "two" THEN FormatTwo(row_residues)
                          ELSE FormatMulti(row_residues, seps))
  /\ row_fields = << >>
  /\ row_tokens = << >>
  /\ row_pc = "line"

\* Line 42.
RowTwoFields ==
  /\ row_mode = "two" /\ row_pc = "line"
  /\ LET f == TwoFields(row_line)
     IN  IF f = None
         THEN /\ row_pc' = "IndexError"
              /\ UNCHANGED row_fields
         ELSE /\ row_pc' = "fields"
              /\ row_fields' = f[1]
  /\ UNCHANGED <<row_mode, row_residues, row_line, row_tokens, mainvars>>

\* Lines 48-53.
RowNormalizeTwo ==
  /\ row_mode = "two" /\ row_pc = "fields"
  /\ LET t == AllOrNone([i \in 1..Len(row_fields) |-> NormalizeTwo(row_fields[i])])
     IN  IF t = None
         THEN /\ row_pc' = "ValueError"
              /\ UNCHANGED row_tokens
         ELSE /\ row_pc' = "tokens"
              /\ row_tokens' = t[1]
  /\ UNCHANGED <<row_mode, row_residues, row_line, row_fields, mainvars>>

\* Lines 86-92.
RowMultiFields ==
  /\ row_mode = "multi" /\ row_pc = "line"
  /\ row_fields' = MultiFields(row_line)
  /\ row_pc' = "fields"
  /\ UNCHANGED <<row_mode, row_residues, row_line, row_tokens, mainvars>>

\* Line 95.
RowStripFlag ==
  /\ row_mode = "multi" /\ row_pc = "fields"
  /\ row_tokens' = [i \in 1..Len(row_fields) |-> StripFlag(row_fields[i])]
  /\ row_pc' = "flagless"
  /\ UNCHANGED <<row_mode, row_residues, row_line, row_fields, mainvars>>

\* Lines 99-102.
RowNormalizeMulti ==
  /\ row_mode = "multi" /\ row_pc = "flagless"
  /\ LET t == AllOrNone([i \in 1..Len(row_tokens) |-> NormalizeMulti(row_tokens[i])])
     IN  IF t = None
         THEN /\ row_pc' = "ValueError"
              /\ UNCHANGED row_tokens
         ELSE /\ row_pc' = "tokens"
              /\ row_tokens' = t[1]
  /\ UNCHANGED <<row_mode, row_residues, row_line, row_fields, mainvars>>

NextRow ==
  \/ RowTwoFields
  \/ RowNormalizeTwo
  \/ RowMultiFields
  \/ RowStripFlag
  \/ RowNormalizeMulti

SpecRow == InitRow /\ [][NextRow]_vars

\* ------------------------------------------------------------------------
\* Structure names: the "reading ..." lines
\* ------------------------------------------------------------------------
TwoMarkers == {"reading QUERY structure", "reading TARGET structure",
               "reading FIXED structure", "reading MOVING structure"}

MultiMarkers == {"... reading file"}

Last(S) == IF S = {} THEN 0 ELSE CHOOSE i \in S : \A j \in S : i >= j

\* os.path.splitext(p)[0]
SplitextRoot(p) ==
  LET sepIndex == Last({i \in 1..Len(p) : Char(p, i) = "/"})
      dotIndex == Last({i \in 1..Len(p) : Char(p, i) = "."})
  IN  IF /\ dotIndex > sepIndex
         /\ \E k \in (sepIndex + 1)..(dotIndex - 1) : Char(p, k) # "."
      THEN SubSeq(p, 1, dotIndex - 1)
      ELSE p

\* The loop over the lines that fills proteins; None is the IndexError of a
\* marker line without a quoted file name.
RECURSIVE ReadProteins(_, _, _, _)
ReadProteins(lines, markers, idx, acc) ==
  IF idx >= Len(lines) THEN Some(acc)
  ELSE LET line == lines[idx + 1]
       IN  IF \E m \in markers : PyIn(m, line)
           THEN LET quoted == PySplit(line, "'")
                IN  IF Len(quoted) < 2 THEN None
                    ELSE ReadProteins(lines, markers, idx + 1,
                                      Append(acc, SplitextRoot(quoted[2])))
           ELSE ReadProteins(lines, markers, idx + 1, acc)

\* ------------------------------------------------------------------------
\* Table bounds: alignment_start_idx and alignment_end_idx
\* ------------------------------------------------------------------------
LineTokens(line) ==
  LET parts == PySplit(line, "|")
  IN  {PyStrip(parts[i]) : i \in 1..Len(parts)}

\* The header test of each parser.
IsHeader(mode, line) ==
  LET line_tokens == LineTokens(line)
  IN  IF mode = "two"
      THEN /\ ("Query" \in line_tokens \/ "FIXED" \in line_tokens)
           /\ "Dist.(A)" \in line_tokens
           /\ ("Target" \in line_tokens \/ "MOVING" \in line_tokens)
      ELSE "Disp." \in line_tokens

\* "not alignment_start_idx"
NotSet(start) == start = None \/ start[1] = 0

\* ScanBounds taking the line after the header as the first line of the table.
RECURSIVE ScanBoundsNoSeparator(_, _, _, _)
ScanBoundsNoSeparator(mode, lines, idx, start) ==
  IF idx >= Len(lines) THEN [start |-> start, end |-> None]
  ELSE IF NotSet(start)
       THEN IF IsHeader(mode, lines[idx + 1])
            THEN ScanBoundsNoSeparator(mode, lines, idx + 1, Some(idx + 1))
            ELSE ScanBoundsNoSeparator(mode, lines, idx + 1, start)
       ELSE IF PyIn("'", lines[idx + 1])
            THEN [start |-> start, end |-> Some(idx)]
            ELSE ScanBoundsNoSeparator(mode, lines, idx + 1, start)

\* The loop over the lines that sets the two indices, from line idx on.
RECURSIVE ScanBounds(_, _, _, _)
ScanBounds(mode, lines, idx, start) ==
  IF idx >= Len(lines) THEN [start |-> start, end |-> None]
  ELSE IF NotSet(start)
       THEN IF IsHeader(mode, lines[idx + 1])
            THEN ScanBounds(mode, lines, idx + 1, Some(idx + 2))
            ELSE ScanBounds(mode, lines, idx + 1, start)
       ELSE IF PyIn("'", lines[idx + 1])
            THEN [start |-> start, end |-> Some(idx)]
            ELSE ScanBounds(mode, lines, idx + 1, start)

\* ------------------------------------------------------------------------
\* The two parsers
\* ------------------------------------------------------------------------
Raised(kind, where) == Some([kind |-> kind, where |-> where])

ParseResult(err, names, bounds, rows) ==
  [error |-> err, proteins |-> names, start |-> bounds.start, end |-> bounds.end,
   alignment_lines |-> rows]

Unset == [start |-> None, end |-> None]

parse_two_queries(lines) ==
  LET names == ReadProteins(lines, TwoMarkers, 0, << >>)
  IN  IF names = None THEN ParseResult(Raised("IndexError", "names"), << >>, Unset, << >>)
      ELSE
      LET bounds == ScanBounds("two", lines, 0, None)
          table == PySlice(lines, bounds.start, bounds.end)
          fields == AllOrNone([i \in 1..Len(table) |-> TwoFields(table[i])])
      IN  IF fields = None
          THEN ParseResult(Raised("IndexError", "fields"), names[1], bounds, << >>)
          ELSE
          LET rows == AllOrNone([i \in 1..Len(table) |->
                        AllOrNone([k \in 1..2 |-> NormalizeTwo(fields[1][i][k])])])
          IN  IF rows = None
              THEN ParseResult(Raised("ValueError", "tokens"), names[1], bounds, << >>)
              ELSE ParseResult(None, names[1], bounds, rows[1])

\* One turn of the loop over the table's lines.
MultiRow(line) ==
  LET fields == MultiFields(line)
      flagless == [i \in 1..Len(fields) |-> StripFlag(fields[i])]
  IN  AllOrNone([i \in 1..Len(flagless) |-> NormalizeMulti(flagless[i])])

parse_more_than_two_queries(lines) ==
  LET names == ReadProteins(lines, MultiMarkers, 0, << >>)
  IN  IF names = None THEN ParseResult(Raised("IndexError", "names"), << >>, Unset, << >>)
      ELSE
      LET bounds == ScanBounds("multi", lines, 0, None)
          table == PySlice(lines, bounds.start, bounds.end)
          rows == AllOrNone([i \in 1..Len(table) |-> MultiRow(table[i])])
      IN  IF rows = None
          THEN ParseResult(Raised("ValueError", "tokens"), names[1], bounds, << >>)
          ELSE ParseResult(None, names[1], bounds, rows[1])

\* ------------------------------------------------------------------------
\* Label records: dicts, as lists of <<key, value>> in insertion order
\* ------------------------------------------------------------------------
DictHas(d, k) == \E i \in 1..Len(d) : d[i][1] = k

DictGet(d, k) == d[CHOOSE i \in 1..Len(d) : d[i][1] = k][2]

\* d[k] = v
DictSet(d, k, v) ==
  IF DictHas(d, k) THEN [i \in 1..Len(d) |-> IF d[i][1] = k THEN <<k, v>> ELSE d[i]]
  ELSE Append(d, <<k, v>>)

\* RowDict pairing names and tokens as zip() does: the columns without a name
\* are dropped.
RECURSIVE RowDictZip(_, _, _, _)
RowDictZip(names, line, idx, d) ==
  IF idx >= Len(line) \/ idx >= Len(names) THEN Some(d)
  ELSE RowDictZip(names, line, idx + 1, DictSet(d, names[idx + 1], line[idx + 1]))

\* {proteins[idx]: residue for idx, residue in enumerate(line)}; None is the
\* IndexError of a row with more columns than there are names.
RECURSIVE RowDict(_, _, _, _)
RowDict(names, line, idx, d) ==
  IF idx >= Len(line) THEN Some(d)
  ELSE IF idx >= Len(names) THEN None
  ELSE RowDict(names, line, idx + 1, DictSet(d, names[idx + 1], line[idx + 1]))

\* "-".join([line[protein] if len(line[protein]) > 0 else "None" for protein in line])
GenericResname(d) ==
  PyJoin("-", [i \in 1..Len(d) |-> IF Len(d[i][2]) > 0 THEN d[i][2] ELSE "None"])

WithGeneric(d) == DictSet(d, "generic_resname", GenericResname(d))

\* ------------------------------------------------------------------------
\* Label files
\* ------------------------------------------------------------------------
\* "{}\t{}\t\n".format(line[protein], line["generic_resname"])
LabelLine(d, protein) ==
  DictGet(d, protein) \o "\t" \o DictGet(d, "generic_resname") \o "\t\n"

\* WriteRecords without the test that skips a record whose token is empty.
RECURSIVE WriteRecordsNoSkip(_, _, _, _)
WriteRecordsNoSkip(dicts, protein, i, text) ==
  IF i > Len(dicts) THEN [text |-> text, failed |-> FALSE]
  ELSE IF ~DictHas(dicts[i], protein) THEN [text |-> text, failed |-> TRUE]
  ELSE WriteRecordsNoSkip(dicts, protein, i + 1, text \o LabelLine(dicts[i], protein))

\* The loop over the records inside the open file, from record i on: the
\* text written, and whether the loop ended in the KeyError of a record
\* without the protein.
RECURSIVE WriteRecords(_, _, _, _)
WriteRecords(dicts, protein, i, text) ==
  IF i > Len(dicts) THEN [text |-> text, failed |-> FALSE]
  ELSE IF ~DictHas(dicts[i], protein) THEN [text |-> text, failed |-> TRUE]
  ELSE IF Len(DictGet(dicts[i], protein)) = 0
       THEN WriteRecords(dicts, protein, i + 1, text)
       ELSE WriteRecords(dicts, protein, i + 1, text \o LabelLine(dicts[i], protein))

LabelFile(protein) == protein \o ".label"

\* Overwritten with the file opened in mode "a+": the text is added to the
\* content the file had.
Appended(dir, name, text) ==
  [f \in DOMAIN dir \cup {name} |->
     IF f = name THEN (IF name \in DOMAIN dir THEN dir[name] ELSE "") \o text ELSE dir[f]]

\* open(name, "w+"), the writes, close: the file is created or its content
\* replaced.
Overwritten(dir, name, text) ==
  [f \in DOMAIN dir \cup {name} |-> IF f = name THEN text ELSE dir[f]]

\* ------------------------------------------------------------------------
\* The reports and the command lines of the checked runs
\* ------------------------------------------------------------------------
QueryLine == "  reading QUERY structure 'foo1.pdb'"

TargetLine == " reading TARGET structure 'foo2.pdb'  "

FixedLine == " reading FIXED structure 'x.ent.pdb'"

MovingLine == " reading MOVING structure 'x.ent.pdb'"

FileLine(n) == " ... reading file 'foo" \o PyStr(n) \o ".pdb', 120 atoms"

TwoNames ==
  { <<QueryLine, "", TargetLine>>,
    <<FixedLine, MovingLine>>,
    <<" ... rea", "ding QUERY structure", TargetLine>>,
    <<" reading QUERY structure foo1.pdb", TargetLine>> }

MultiNames ==
  { << >>,
    <<TargetLine>>,
    <<FileLine(1), "   ", FileLine(2)>>,
    <<FileLine(1), FileLine(2), FileLine(3)>> }

SeparatorLine == "|------+------+------|"

TwoHeaders ==
  { << >>,
    <<"|    Query    |  Dist.(A)  |   Target    |", SeparatorLine>>,
    <<"|    FIXED    |  Dist.(A)  |   MOVING    |", "|--'--|">>,
    <<"|    Query    |  Dist.(A)  |   Target    |", SeparatorLine,
      "|    Query    |  Dist.(A)  |   Target    |">> }

MultiHeaders ==
  { << >>,
    <<"   Disp. | | foo1 | | foo2", "  ------+-+------">>,
    <<"|    Query    |  Dist.(A)  |   Target    |", SeparatorLine>> }

TwoRows ==
  { "|H- A:LEU  75 | <**0.82**> |H- A:LEU  65 |",
    "|             |            |S+ B:ASN 103 |" }

MultiRows ==
  { "   6.034 | |  A:CYS 341 | |  A:MET 456 | |  ",
    "   1.250 |*|H|D:LEU 559" }

Trailers ==
  { << >>,
    <<" quality Q='0.5'", "|H- A:GLY   1 | <**0.10**> |H- A:GLY   2 |">>,
    <<"|H- A:LEU  7x | <..1.93..> |             |">> }

SeqsTo(S, n) == UNION {[1..k -> S] : k \in 0..n}

Reports ==
  {n \o h \o b \o t :
     n \in TwoNames, h \in TwoHeaders, b \in SeqsTo(TwoRows, MaxRows), t \in Trailers}
  \cup
  {n \o h \o b \o t :
     n \in MultiNames, h \in MultiHeaders, b \in SeqsTo(MultiRows, MaxRows), t \in Trailers}

EmptyDirectory == << >>

UsedDirectory ==
  [f \in {"foo1.label", "alpha.label", "notes.txt"} |->
     IF f = "notes.txt" THEN "keep" ELSE "A:XXX:1\tA:XXX:1-A:YYY:2\t\n"]

\* --proteins and the output directory of a run.
CommandLines ==
  { <<None, EmptyDirectory>>,
    <<None, UsedDirectory>>,
    <<Some(<<"alpha", "beta">>), UsedDirectory>>,
    <<Some(<<"alpha">>), EmptyDirectory>> }

\* ------------------------------------------------------------------------
\* main
\* ------------------------------------------------------------------------
RowIdle ==
  /\ row_mode = "two"
  /\ row_residues = << >>
  /\ row_line = ""
  /\ row_fields = << >>
  /\ row_tokens = << >>
  /\ row_pc = "idle"

Init ==
  /\ RowIdle
  /\ input_gesamt \in Reports
  /\ \E c \in CommandLines : input_proteins = c[1] /\ output_path = c[2]
  /\ gesamt_lines = << >>
  /\ calls = << >>
  /\ alignment_start_idx = None
  /\ alignment_end_idx = None
  /\ alignment_lines = << >>
  /\ records = << >>
  /\ proteins = << >>
  /\ written = << >>
  /\ pc = "read"
  /\ error = None
  /\ run = 1
  /\ before = output_path
  /\ first_output = None

\* [line.strip() for line in r_open.readlines() if len(line.strip()) > 0]
StrippedNonBlank(lines) ==
  LET kept == SelectSeq(lines, LAMBDA line : Len(PyStrip(line)) > 0)
  IN  [i \in 1..Len(kept) |-> PyStrip(kept[i])]

ReadInput ==
  /\ pc = "read"
  /\ gesamt_lines' = StrippedNonBlank(input_gesamt)
  /\ pc' = "parse"
  /\ UNCHANGED <<input_gesamt, input_proteins, output_path, calls, alignment_start_idx,
                 alignment_end_idx, alignment_lines, records, proteins, written, error,
                 run, before, first_output, rowvars>>

\* IsTwoQueries taking any of the four role markers for a pairwise report.
IsTwoQueriesAnyMarker(lines) ==
  LET joined == PyJoin("", lines)
  IN  \E m \in TwoMarkers : PyIn(m, joined)

\* The test that chooses the parser.
IsTwoQueries(lines) ==
  LET joined == PyJoin("", lines)
  IN  \/ PyIn("reading QUERY structure", joined)
      \/ PyIn("reading FIXED structure", joined)

Parsed(name, r) ==
  /\ calls' = Append(calls, name)
  /\ proteins' = r.proteins
  /\ alignment_start_idx' = r.start
  /\ alignment_end_idx' = r.end
  /\ alignment_lines' = r.alignment_lines
  /\ error' = r.error
  /\ pc' = IF r.error = None THEN "assemble" ELSE "failed"
  /\ UNCHANGED <<input_gesamt, input_proteins, output_path, gesamt_lines, records,
                 written, run, before, first_output, rowvars>>

ParseTwoQueries ==
  /\ pc = "parse"
  /\ IsTwoQueries(gesamt_lines)
  /\ Parsed("parse_two_queries", parse_two_queries(gesamt_lines))

ParseMoreThanTwoQueries ==
  /\ pc = "parse"
  /\ ~IsTwoQueries(gesamt_lines)
  /\ Parsed("parse_more_than_two_queries", parse_more_than_two_queries(gesamt_lines))

\* Assemble with the first label file opened before the records are built.
AssembleAfterOpen ==
  /\ pc = "assemble"
  /\ LET names == IF input_proteins # None THEN input_proteins[1] ELSE proteins
         dicts == AllOrNone([i \in 1..Len(alignment_lines) |->
                    RowDict(names, alignment_lines[i], 0, << >>)])
     IN  /\ proteins' = names
         /\ output_path' = IF Len(names) = 0 THEN output_path
                           ELSE Overwritten(output_path, LabelFile(names[1]), "")
         /\ IF dicts = None
            THEN /\ error' = Raised("IndexError", "records")
                 /\ pc' = "failed"
                 /\ UNCHANGED records
            ELSE /\ records' = [i \in 1..Len(dicts[1]) |-> WithGeneric(dicts[1][i])]
                 /\ pc' = IF Len(names) = 0 THEN "done" ELSE "write"
                 /\ UNCHANGED error
  /\ UNCHANGED <<input_gesamt, input_proteins, gesamt_lines, calls,
                 alignment_start_idx, alignment_end_idx, alignment_lines, written, run,
                 before, first_output, rowvars>>

\* The names override, the records and their generic_resname.
Assemble ==
  /\ pc = "assemble"
  /\ LET names == IF input_proteins # None THEN input_proteins[1] ELSE proteins
         dicts == AllOrNone([i \in 1..Len(alignment_lines) |->
                    RowDict(names, alignment_lines[i], 0, << >>)])
     IN  /\ proteins' = names
         /\ IF dicts = None
            THEN /\ error' = Raised("IndexError", "records")
                 /\ pc' = "failed"
                 /\ UNCHANGED records
            ELSE /\ records' = [i \in 1..Len(dicts[1]) |-> WithGeneric(dicts[1][i])]
                 /\ pc' = IF Len(names) = 0 THEN "done" ELSE "write"
                 /\ UNCHANGED error
  /\ UNCHANGED <<input_gesamt, input_proteins, output_path, gesamt_lines, calls,
                 alignment_start_idx, alignment_end_idx, alignment_lines, written, run,
                 before, first_output, rowvars>>

\* One turn of the loop over proteins: one label file.
WriteLabelFile ==
  /\ pc = "write"
  /\ LET protein == proteins[Len(written) + 1]
         w == WriteRecords(records, protein, 1, "")
     IN  /\ output_path' = Overwritten(output_path, LabelFile(protein), w.text)
         /\ IF w.failed
            THEN /\ error' = Raised("KeyError", "write")
                 /\ pc' = "failed"
                 /\ UNCHANGED written
            ELSE /\ written' = Append(written, protein)
                 /\ pc' = IF Len(written) + 1 = Len(proteins) THEN "done" ELSE "write"
                 /\ UNCHANGED error
  /\ UNCHANGED <<input_gesamt, input_proteins, gesamt_lines, calls, alignment_start_idx,
                 alignment_end_idx, alignment_lines, records, proteins, run, before,
                 first_output, rowvars>>

\* The program is started again with the same arguments, on the directory
\* the first run left.
RunAgain ==
  /\ pc \in {"done", "failed"}
  /\ run = 1
  /\ run' = 2
  /\ first_output' = Some(output_path)
  /\ before' = output_path
  /\ gesamt_lines' = << >>
  /\ calls' = << >>
  /\ alignment_start_idx' = None
  /\ alignment_end_idx' = None
  /\ alignment_lines' = << >>
  /\ records' = << >>
  /\ proteins' = << >>
  /\ written' = << >>
  /\ pc' = "read"
  /\ error' = None
  /\ UNCHANGED <<input_gesamt, input_proteins, output_path, rowvars>>

Next ==
  \/ ReadInput
  \/ ParseTwoQueries
  \/ ParseMoreThanTwoQueries
  \/ Assemble
  \/ WriteLabelFile
  \/ RunAgain

Spec == Init /\ [][Next]_vars

\* ------------------------------------------------------------------------
\* C3: residue normalization
\* ------------------------------------------------------------------------
\* A printed residue in the documented fixed-width form: nothing follows
\* the residue number.
Documented(r) == r.gap \/ r.post = ""

\* C3: a row whose residues are all printed in the documented fixed-width
\* form never fails, and yields one token per residue: chain:resname:n with
\* n the residue number without padding for a residue, the empty token for a
\* gap; and whatever the row, a residue never yields the empty token and a
\* gap never yields a non-empty one.
Thm_C3 ==
  /\ (\A i \in 1..Len(row_residues) : Documented(row_residues[i]))
       => /\ row_pc \notin {"IndexError", "ValueError"}
          /\ row_pc = "tokens"
               => row_tokens = [i \in 1..Len(row_residues) |-> Canon(row_residues[i])]
  /\ row_pc = "tokens"
       => /\ Len(row_tokens) = Len(row_residues)
          /\ \A i \in 1..Len(row_residues) :
               row_residues[i].gap <=> row_tokens[i] = ""

Wit_C3 ==
  /\ row_pc = "tokens"
  /\ \E i, j \in 1..Len(row_residues) :
       /\ row_residues[i].gap
       /\ ~row_residues[j].gap
       /\ row_residues[j].pre # ""
       /\ row_residues[j].resnum = 5
       /\ row_tokens[j] = row_residues[j].chain \o ":" \o row_residues[j].resname \o ":5"

\* ------------------------------------------------------------------------
\* C9: the flag prefix of a multi-way field
\* ------------------------------------------------------------------------
AfterFirstPipe(f) == SubSeq(f, FindFrom(f, "|", 1) + 1, Len(f))

UpToFirstPipe(f) == IF PyIn("|", f) THEN SubSeq(f, 1, FindFrom(f, "|", 1) - 1) ELSE f

\* C9 as stated: of a field that contains "|" the parser keeps all the text
\* after the first "|"; a field without "|" is unchanged.
Orig_C9 ==
  row_pc = "flagless"
    => \A i \in 1..Len(row_fields) :
         row_tokens[i] = IF PyIn("|", row_fields[i]) THEN AfterFirstPipe(row_fields[i])
                         ELSE row_fields[i]

\* C9 amended: of a field that contains "|" the parser keeps the text between
\* the first "|" and the second "|" (up to the end of the field when there is
\* no second one); a field without "|" is unchanged.
Thm_C9 ==
  row_pc = "flagless"
    => /\ Len(row_tokens) = Len(row_fields)
       /\ \A i \in 1..Len(row_fields) :
            row_tokens[i] = IF PyIn("|", row_fields[i])
                            THEN UpToFirstPipe(AfterFirstPipe(row_fields[i]))
                            ELSE row_fields[i]

Wit_C9 ==
  /\ row_pc = "flagless"
  /\ \E i, j \in 1..Len(row_fields) :
       /\ row_fields[i] = "H|B:CYS 341"
       /\ row_tokens[i] = "B:CYS 341"
       /\ row_fields[j] = "H|B:CYS   5|B"
       /\ row_tokens[j] = "B:CYS   5"

\* ------------------------------------------------------------------------
\* C1: the label files
\* ------------------------------------------------------------------------
\* The label file of protein S as the records determine it: one line
\* token TAB generic_resname TAB newline per record whose token for S is
\* non-empty, in the records' order.
ExpectedLabel(dicts, S) ==
  LET kept == SelectSeq(dicts, LAMBDA d : DictHas(d, S) /\ DictGet(d, S) # "")
  IN  PyJoin("", [i \in 1..Len(kept) |->
        DictGet(kept[i], S) \o "\t" \o DictGet(kept[i], "generic_resname") \o "\t\n"])

\* C1: every label file the write loop has completed holds exactly one line
\* per record whose token for that structure is non-empty, in row order, each
\* line being token TAB generic_resname TAB newline; a record whose token is
\* empty contributes no line; and a run that ends normally has completed the
\* file of every name of the effective name list.
Thm_C1 ==
  /\ \A i \in 1..Len(written) :
       /\ LabelFile(written[i]) \in DOMAIN output_path
       /\ output_path[LabelFile(written[i])] = ExpectedLabel(records, written[i])
  /\ pc = "done" => written = proteins

Wit_C1 ==
  /\ pc = "done"
  /\ Len(records) = 2
  /\ \E i \in 1..Len(written) :
       /\ DictGet(records[1], written[i]) # ""
       /\ DictGet(records[2], written[i]) = ""
       /\ output_path[LabelFile(written[i])] = LabelLine(records[1], written[i])

\* ------------------------------------------------------------------------
\* C2: generic_resname
\* ------------------------------------------------------------------------
Assembled == pc \in {"write", "done"} \/ (pc = "failed" /\ error[1].where = "write")

\* C2 as stated: the generic_resname of a row with as many tokens as there
\* are structure names is the "-"-joined sequence with one component per
\* structure name, in name order: the structure's token, or "None" for a gap.
Orig_C2 ==
  Assembled =>
    \A i \in 1..Len(records) :
      Len(alignment_lines[i]) = Len(proteins) =>
        DictGet(records[i], "generic_resname") =
          PyJoin("-", [k \in 1..Len(proteins) |->
            IF alignment_lines[i][k] # "" THEN alignment_lines[i][k] ELSE "None"])

\* ------------------------------------------------------------------------
\* C4: columns and names
\* ------------------------------------------------------------------------
EffectiveNames == IF input_proteins # None THEN input_proteins[1] ELSE proteins

\* C4 as stated: in a run that reaches the assembling step every token row
\* has as many tokens as there are names, the override applied.
Orig_C4 ==
  pc = "assemble" =>
    \A i \in 1..Len(alignment_lines) : Len(alignment_lines[i]) = Len(EffectiveNames)

\* C4 amended: in a run whose assembling step completes, no token row has
\* more tokens than there are names, the override applied.
Thm_C4 ==
  Assembled =>
    /\ proteins = EffectiveNames
    /\ Len(records) = Len(alignment_lines)
    /\ \A i \in 1..Len(alignment_lines) : Len(alignment_lines[i]) <= Len(proteins)

Wit_C4 ==
  /\ pc = "write"
  /\ input_proteins = Some(<<"alpha", "beta">>)
  /\ proteins = <<"alpha", "beta">>
  /\ \E i \in 1..Len(alignment_lines) : Len(alignment_lines[i]) = 1

\* ------------------------------------------------------------------------
\* C5: the choice of the parser
\* ------------------------------------------------------------------------
\* The concatenation of the non-blank lines of the report, each trimmed.
RECURSIVE Concatenated(_, _)
Concatenated(lines, i) ==
  IF i > Len(lines) THEN ""
  ELSE PyStrip(lines[i]) \o Concatenated(lines, i + 1)

\* C5: the pairwise parser is run if and only if the concatenation of the
\* trimmed non-blank lines contains "reading QUERY structure" or "reading
\* FIXED structure"; otherwise the multi-way parser is run; and a run calls
\* exactly one parser.
Thm_C5 ==
  /\ pc \in {"read", "parse"} => calls = << >>
  /\ pc \notin {"read", "parse"} =>
       LET text == Concatenated(input_gesamt, 1)
       IN  calls = IF \/ PyIn("reading QUERY structure", text)
                      \/ PyIn("reading FIXED structure", text)
                   THEN <<"parse_two_queries">>
                   ELSE <<"parse_more_than_two_queries">>

Wit_C5 ==
  /\ calls = <<"parse_more_than_two_queries">>
  /\ \E i \in 1..Len(gesamt_lines) : PyIn("reading TARGET structure", gesamt_lines[i])

\* ------------------------------------------------------------------------
\* C6 and C8: the table
\* ------------------------------------------------------------------------
Mode == IF calls = <<"parse_two_queries">> THEN "two" ELSE "multi"

\* The 0-based indices of the header lines of the parser that ran.
Headers == {i \in 0..(Len(gesamt_lines) - 1) : IsHeader(Mode, gesamt_lines[i + 1])}

First(S) == CHOOSE i \in S : \A j \in S : i <= j

NamesRead == error = None \/ error[1].where # "names"

\* C6 as stated: when the parser that ran finds no header line, the run
\* fails before any row is tokenized, so it never assembles or writes.
Orig_C6 ==
  (calls # << >> /\ Headers = {} /\ NamesRead) =>
     /\ pc = "failed"
     /\ error[1].where \notin {"fields", "tokens", "records", "write"}

\* The 0-based indices of the lines of the table whose header is line h: from
\* h + 2 on, up to the line before the first line after h with a quote.
Body(h) ==
  {i \in (h + 2)..(Len(gesamt_lines) - 1) :
     \A j \in (h + 1)..i : ~PyIn("'", gesamt_lines[j + 1])}

\* The tokens of one line of the table, or None when the line fails.
RowTokens(mode, line) ==
  IF mode = "two"
  THEN LET fields == TwoFields(line)
       IN  IF fields = None THEN None
           ELSE AllOrNone([k \in 1..2 |-> NormalizeTwo(fields[1][k])])
  ELSE MultiRow(line)

\* C8: with h the index of the first header line, the rows the parser
\* returns are the tokens of the lines h + 2, h + 3, ... up to the line
\* before the first line after the header that contains a quote (to the last
\* line when there is none), one row per line and in that order; and the
\* parser fails on a row only if one of these lines fails.
Thm_C8 ==
  (calls # << >> /\ Headers # {} /\ NamesRead) =>
     LET h == First(Headers)
         n == Cardinality(Body(h))
     IN  /\ alignment_start_idx = Some(h + 2)
         /\ IF error # None /\ error[1].where \in {"fields", "tokens"}
            THEN \E k \in 1..n : RowTokens(Mode, gesamt_lines[h + 2 + k]) = None
            ELSE alignment_lines =
                   [k \in 1..n |-> RowTokens(Mode, gesamt_lines[h + 2 + k])[1]]

Wit_C8 ==
  /\ pc = "assemble"
  /\ Headers # {}
  /\ Len(alignment_lines) = 2
  /\ alignment_end_idx # None
  /\ alignment_end_idx[1] + 1 < Len(gesamt_lines)
  /\ PyIn("'", gesamt_lines[alignment_end_idx[1] + 1])

\* ------------------------------------------------------------------------
\* C7: the second run
\* ------------------------------------------------------------------------
\* C7: when the second run on the same report, the same --proteins and the
\* directory the first run left has ended, every file of the directory has
\* the content it had when the first run ended.
Thm_C7 ==
  (run = 2 /\ pc \in {"done", "failed"}) => output_path = first_output[1]

Wit_C7 ==
  /\ run = 2
  /\ pc = "done"
  /\ written = <<"foo1", "foo2">>
  /\ "notes.txt" \in DOMAIN output_path
  /\ output_path["foo1.label"] # ""
  /\ output_path["foo1.label"] # UsedDirectory["foo1.label"]

\* ------------------------------------------------------------------------
\* C10: nothing is written before the records are assembled
\* ------------------------------------------------------------------------
\* C10: until every row is parsed and every record assembled the output
\* directory is as it was when the run started; so a run that fails in a
\* parser (a residue number that is no integer) or while the records are
\* built (fewer names than a row has columns) leaves the directory as it was.
Thm_C10 ==
  /\ pc \in {"read", "parse", "assemble"} => output_path = before
  /\ (pc = "failed" /\ error[1].where \in {"names", "fields", "tokens", "records"})
       => output_path = before

Wit_C10 ==
  /\ pc = "failed"
  /\ error[1].kind = "ValueError"
  /\ output_path = UsedDirectory

====
